---- MODULE Spec2Model ----
(***************************************************************************)
(* A model of src/main.py: the Container / Location / ItemUse / Item      *)
(* classes, the world built by __main__ and the menu loop of Player.      *)
(*                                                                         *)
(* Python lists are objects: a Container stores a reference to the list   *)
(* it was constructed with, so the model keeps a heap of list objects     *)
(* (heap) and, per container, the reference it holds (_items).            *)
(***************************************************************************)
EXTENDS Integers, Sequences, FiniteSets, TLC

VARIABLES
  heap,                \* list object -> its contents (a sequence of items)
  _items,              \* Container._items: container -> list object
  _exits,              \* Location._exits: location -> sequence of Exit
  _virtual_location,   \* ItemUse._virtual_location of each item's use
  destroy_on_execute,  \* ItemUse.__destroy_on_execute of each item's use
  _location,           \* Player._location
  pc,                  \* where the program is
  depth,               \* number of active Player.prompt frames
  actions,             \* the list returned by print_and_get_actions
  out,                 \* the last event at the console: a line printed, a menu closed
  call,                \* the last call of execute(), or of a method called directly
  futures,             \* the futures of executor.map, in the order of the prompts
  rooms_gpt_responses, \* the list collected from them
  _description         \* Container._description of each location

vars == <<heap, _items, _exits, _virtual_location, destroy_on_execute,
          _location, pc, depth, actions, out, call,
          futures, rooms_gpt_responses, _description>>

\* What loading the game writes and nothing after it changes.
loaded == <<futures, rooms_gpt_responses, _description>>

----------------------------------------------------------------------------
(* Objects *)

None == "None"

Items == {"Crown", "Mango", "Apple", "Diamond"}

Rooms == {"Lounge", "Kitchen", "Dining Room"}

Locations == Rooms \cup {"Hall"}

Containers == Locations \cup {"Player"}

\* One list object per list literal of __main__, named after the container
\* that receives it, and the list that is Room.__init__'s default argument.
RoomDefaultItems == "Room.__init__.items"

ListObjects == Containers \cup {RoomDefaultItems}

----------------------------------------------------------------------------
(* Bounds *)

MaxTurns == 5        \* turns played in the bounded specification

MaxInputLen == 2     \* characters of one line of input

MaxItems == 3        \* length of a list, where methods are called directly

----------------------------------------------------------------------------
(* Console input: a line is a sequence of characters; int() parses it. *)

Digits == {"0", "1", "2", "3", "4", "5", "6", "7"}

Whitespace == {" "}

Chars == Digits \cup Whitespace \cup {"-", "+", "a"}

RECURSIVE Lines(_)
Lines(n) ==
  IF n = 0 THEN {<<>>}
  ELSE Lines(n - 1) \cup {Append(l, c) : l \in {m \in Lines(n - 1) : Len(m) = n - 1}, c \in Chars}

Inputs == Lines(MaxInputLen)

DigitValue ==
  [c \in Digits |->
    CASE c = "0" -> 0 [] c = "1" -> 1 [] c = "2" -> 2 [] c = "3" -> 3
      [] c = "4" -> 4 [] c = "5" -> 5 [] c = "6" -> 6 [] c = "7" -> 7]

RECURSIVE lstrip(_)
lstrip(s) == IF s # <<>> /\ Head(s) \in Whitespace THEN lstrip(Tail(s)) ELSE s

RECURSIVE rstrip(_)
rstrip(s) ==
  IF s # <<>> /\ s[Len(s)] \in Whitespace THEN rstrip(SubSeq(s, 1, Len(s) - 1)) ELSE s

strip(s) == rstrip(lstrip(s))

\* The digit part of an integer literal, over Chars: one digit or more.
IsDigitPart(d) == d # <<>> /\ \A k \in 1..Len(d) : d[k] \in Digits

RECURSIVE DigitPartValue(_, _)
DigitPartValue(d, acc) ==
  IF d = <<>> THEN acc
  ELSE DigitPartValue(Tail(d), 10 * acc + DigitValue[Head(d)])

\* int(line): surrounding whitespace is dropped, one sign may precede the
\* digits; raised = TRUE stands for ValueError.
int(line) ==
  LET t == strip(line)
      signed == t # <<>> /\ t[1] \in {"+", "-"}
      d == IF signed THEN Tail(t) ELSE t
      v == DigitPartValue(d, 0)
  IN  IF IsDigitPart(d)
      THEN [raised |-> FALSE, value |-> IF signed /\ t[1] = "-" THEN 0 - v ELSE v]
      ELSE [raised |-> TRUE, value |-> 0]

\* int() of every line that can be read, computed once.
ParsedInputs == [line \in Inputs |-> int(line)]

\* Selection with a number above the menu taken for its last entry.
Selection_clamped(line, last) ==
  LET parsed == int(line)
  IN  IF parsed.raised THEN parsed
      ELSE IF parsed.value < 1 THEN [raised |-> TRUE, value |-> 0]
      ELSE IF parsed.value > last THEN [raised |-> FALSE, value |-> last]
      ELSE parsed

\* The body of the try block of both menus: the selection read from one
\* line, for a menu accepting 1..last; raised = TRUE stands for ValueError,
\* from int() or from the range test.
Selection(line, last) ==
  LET parsed == ParsedInputs[line]
  IN  IF parsed.raised THEN parsed
      ELSE IF parsed.value < 1 \/ parsed.value > last
           THEN [raised |-> TRUE, value |-> 0]
           ELSE parsed

----------------------------------------------------------------------------
(* Container *)

get_items(h, c) == h[_items[c]]

\* list_remove dropping every element equal to x.
list_remove_all(l, x) ==
  [raised |-> \A k \in 1..Len(l) : l[k] # x,
   list |-> SelectSeq(l, LAMBDA e : e # x)]

\* list.remove(x): removes the first element equal to x; raised = TRUE
\* stands for ValueError, when there is none.
RECURSIVE list_remove(_, _)
list_remove(l, x) ==
  IF l = <<>> THEN [raised |-> TRUE, list |-> l]
  ELSE IF Head(l) = x THEN [raised |-> FALSE, list |-> Tail(l)]
  ELSE LET rest == list_remove(Tail(l), x)
       IN  [raised |-> rest.raised, list |-> <<Head(l)>> \o rest.list]

\* add_item putting the item in front.
\* add_item dropping the item.
add_item_lost(h, c, item) == h

add_item_first(h, c, item) == [h EXCEPT ![_items[c]] = <<item>> \o @]

add_item(h, c, item) == [h EXCEPT ![_items[c]] = Append(@, item)]

\* remove_item that removes nothing.
remove_item_kept(h, c, item) == h

remove_item(h, c, item) ==
  LET r == list_remove(h[_items[c]], item)
  IN  IF r.raised THEN h ELSE [h EXCEPT ![_items[c]] = r.list]

----------------------------------------------------------------------------
(* Exit, Location *)

Exit(to, description) == [to |-> to, description |-> description]

NoExit == Exit(None, "")

add_exit(ex, location, exit) == [ex EXCEPT ![location] = Append(@, exit)]

create_twoway_link(ex, from_location, to_location) ==
  add_exit(add_exit(ex, from_location, Exit(to_location, "Go to the " \o to_location \o ".")),
           to_location, Exit(from_location, "Go to the " \o from_location \o "."))

----------------------------------------------------------------------------
(* ItemUse.  An Item and its ItemUse are bound one to one (Item.__init__   *)
(* calls use.set_item(self)), so a use is named by its item.               *)

\* set_virtual_location forgetting the container.
set_virtual_location_skipped(vl, item, container) == vl

set_virtual_location(vl, item, container) == [vl EXCEPT ![item] = container]

\* destroy leaving the owner's list as it is.
destroy_inert(h, item) ==
  IF _virtual_location[item] = None
  THEN [raised |-> TRUE, heap |-> h]
  ELSE [raised |-> FALSE, heap |-> h]

\* ItemUse.destroy: raised = TRUE stands for the AttributeError of calling
\* remove_item on None.
destroy(h, item) ==
  IF _virtual_location[item] = None
  THEN [raised |-> TRUE, heap |-> h]
  ELSE [raised |-> FALSE, heap |-> remove_item(h, _virtual_location[item], item)]

\* execute calling destroy() whatever destroy_on_execute says.
execute_always_destroys(h, item) ==
  LET d == destroy(h, item)
      owner == _virtual_location[item]
  IN  [raised  |-> d.raised,
       heap    |-> d.heap,
       effect  |-> IF d.raised THEN 0 ELSE 1,
       present |-> /\ ~d.raised
                   /\ owner # None
                   /\ \E k \in 1..Len(get_items(d.heap, owner)) :
                        get_items(d.heap, owner)[k] = item]

\* execute running the effect before destroy().
execute_effect_first(h, item) ==
  LET d == IF destroy_on_execute[item] THEN destroy(h, item)
           ELSE [raised |-> FALSE, heap |-> h]
      owner == _virtual_location[item]
  IN  [raised  |-> d.raised,
       heap    |-> d.heap,
       effect  |-> 1,
       present |-> /\ owner # None
                   /\ \E k \in 1..Len(get_items(h, owner)) : get_items(h, owner)[k] = item]

\* ItemUse.execute: heap is the heap the call leaves, effect the number of
\* times self._execute() ran, and present whether the item was in its
\* owner's list when it ran.
execute(h, item) ==
  LET d == IF destroy_on_execute[item] THEN destroy(h, item)
           ELSE [raised |-> FALSE, heap |-> h]
      owner == _virtual_location[item]
  IN  [raised  |-> d.raised,
       heap    |-> d.heap,
       effect  |-> IF d.raised THEN 0 ELSE 1,
       present |-> /\ ~d.raised
                   /\ owner # None
                   /\ \E k \in 1..Len(get_items(d.heap, owner)) :
                        get_items(d.heap, owner)[k] = item]

----------------------------------------------------------------------------
(* Player *)

PlayerAction(type, item, exit) == [type |-> type, item |-> item, exit |-> exit]

\* A line written to the console: its kind, the object it names, the range
\* it names, and (for an effect) what the effect saw.
Report(kind, arg, lo, hi, present) ==
  [kind |-> kind, arg |-> arg, lo |-> lo, hi |-> hi, present |-> present]

Silent == Report("none", None, 0, 0, FALSE)

\* A method called on a container or on an item's use, whether it raised,
\* and how many times it ran the effect.
Call(op, container, item, raised, effect) ==
  [op |-> op, container |-> container, item |-> item, raised |-> raised, effect |-> effect]

NoCall == Call("none", None, None, FALSE, 0)

\* print_and_get_actions listing the exits before the items.
print_and_get_actions_exits_first(h, location) ==
  LET its == get_items(h, location)
      exs == _exits[location]
  IN  <<PlayerAction("quit", None, NoExit), PlayerAction("inventory", None, NoExit)>>
        \o [k \in 1..Len(exs) |-> PlayerAction("go", None, exs[k])]
        \o [k \in 1..Len(its) |-> PlayerAction("take", its[k], NoExit)]

print_and_get_actions(h, location) ==
  LET its == get_items(h, location)
      exs == _exits[location]
  IN  <<PlayerAction("quit", None, NoExit), PlayerAction("inventory", None, NoExit)>>
        \o [k \in 1..Len(its) |-> PlayerAction("take", its[k], NoExit)]
        \o [k \in 1..Len(exs) |-> PlayerAction("go", None, exs[k])]

\* The interpreter's limit on nested calls (sys.getrecursionlimit()), the
\* frame of the module under the first prompt(), and the deepest calls a
\* prompt() frame makes (print_location -> get_location).
RecursionLimit == 1000

FramesBelowPrompt == 1

FramesAbovePrompt == 2

\* A call of self.prompt() with the heap h and the location loc, after
\* the line `report` was written: it shows the next menu, or dies of
\* RecursionError.
EnterPrompt(h, loc, report) ==
  IF FramesBelowPrompt + (depth + 1) + FramesAbovePrompt > RecursionLimit
  THEN /\ pc' = "crashed"
       /\ out' = Report("RecursionError", None, 0, 0, FALSE)
       /\ UNCHANGED <<depth, actions>>
  ELSE /\ pc' = "presenting"
       /\ out' = report
       /\ depth' = depth + 1
       /\ actions' = print_and_get_actions(h, loc)

----------------------------------------------------------------------------
(* Loading: the room descriptions are asked of the text service by four    *)
(* calls of ask_gpt, run by the worker threads of a ThreadPoolExecutor.    *)

\* The prompts of __main__ in the order of the list, each named by the
\* room it asks a description for.
Prompts == <<"lounge", "kitchen", "hall", "dining room">>

\* ask_gpt: the text of the service's answer to the prompt.
ask_gpt(prompt) == <<"response to", prompt>>

\* A future of the executor.  rank is the place of its completion among
\* the calls (1 = the first call to finish, 0 = not finished yet).
Future(state, result, exception, rank) ==
  [state |-> state, result |-> result, exception |-> exception, rank |-> rank]

\* The results taken as the calls finish.
collect_as_completed(fs) ==
  [k \in 1..Len(fs) |-> fs[CHOOSE i \in 1..Len(fs) : fs[i].rank = k].result]

\* list(rooms_gpt_responses): the iterator of executor.map pops the
\* futures in the order of submission and yields the result of each.
collect(fs) == [k \in 1..Len(fs) |-> fs[k].result]

\* The items each list literal of __main__ holds.
WorldItems ==
  [l \in ListObjects |->
     CASE l = "Lounge" -> <<"Crown">>
       [] l = "Kitchen" -> <<"Mango", "Apple">>
       [] l = "Dining Room" -> <<"Diamond">>
       [] OTHER -> <<>>]

\* The description each location is constructed with.
WorldDescriptions(responses) ==
  [l \in Locations |->
     CASE l = "Lounge" -> responses[1]
       [] l = "Kitchen" -> responses[2]
       [] l = "Hall" -> responses[3]
       [] l = "Dining Room" -> responses[4]]

----------------------------------------------------------------------------
(* The world built by __main__ *)

InitExits ==
  create_twoway_link(
    create_twoway_link(
      create_twoway_link(
        create_twoway_link([l \in Locations |-> <<>>], "Lounge", "Hall"),
        "Lounge", "Kitchen"),
      "Hall", "Dining Room"),
    "Kitchen", "Dining Room")

Init ==
  /\ heap = WorldItems
  /\ _items = [c \in Containers |-> c]
  /\ _exits = InitExits
  /\ _virtual_location = [i \in Items |-> None]
  /\ destroy_on_execute = [i \in Items |-> TRUE]
  /\ _location = "Lounge"
  /\ pc = "start"
  /\ depth = 0
  /\ actions = <<>>
  /\ out = Silent
  /\ call = NoCall
  /\ futures = <<>>
  /\ rooms_gpt_responses = [i \in 1..Len(Prompts) |-> ask_gpt(Prompts[i])]
  /\ _description = WorldDescriptions([i \in 1..Len(Prompts) |-> ask_gpt(Prompts[i])])

----------------------------------------------------------------------------
(* The menu loop.  cap bounds the number of prompt() calls. *)

\* player.prompt() of __main__
Start(cap) ==
  /\ pc = "start"
  /\ depth < cap
  /\ EnterPrompt(heap, _location, out)
  /\ UNCHANGED <<heap, _items, _exits, call, _virtual_location, destroy_on_execute,
                 _location>>
  /\ UNCHANGED loaded

\* Main menu: a line that int() refuses or that is out of range.
Rejected(line) ==
  /\ pc = "presenting"
  /\ Selection(line, Len(actions)).raised
  /\ out' = Report("invalid", None, 1, Len(actions), FALSE)
  /\ UNCHANGED <<heap, _items, _exits, call, _virtual_location, destroy_on_execute,
                 _location, pc, depth, actions>>
  /\ UNCHANGED loaded

Quit(line) ==
  LET sel == Selection(line, Len(actions))
  IN  /\ pc = "presenting"
      /\ ~sel.raised
      /\ actions[sel.value].type = "quit"
      /\ out' = Report("quit", None, 0, 0, FALSE)
      /\ pc' = "quit"
      /\ UNCHANGED <<heap, _items, _exits, call, _virtual_location, destroy_on_execute,
                     _location, depth, actions>>
      /\ UNCHANGED loaded

\* enter_inventory up to its input loop: the menu, and the line that names
\* 0 as the way out
OpenInventory(line) ==
  LET sel == Selection(line, Len(actions))
  IN  /\ pc = "presenting"
      /\ ~sel.raised
      /\ actions[sel.value].type = "inventory"
      /\ out' = Report("inventory", None, 0, Len(get_items(heap, "Player")) + 1, FALSE)
      /\ pc' = "inventory"
      /\ UNCHANGED <<heap, _items, _exits, call, _virtual_location, destroy_on_execute,
                     _location, depth, actions>>
      /\ UNCHANGED loaded

Take(line, cap) ==
  LET sel == Selection(line, Len(actions))
      action_object == actions[sel.value].item
      removed == remove_item(heap, _location, action_object)
      added == add_item(removed, "Player", action_object)
  IN  /\ pc = "presenting"
      /\ depth < cap
      /\ ~sel.raised
      /\ actions[sel.value].type = "take"
      /\ heap' = added
      /\ _virtual_location' = set_virtual_location(_virtual_location, action_object, "Player")
      /\ EnterPrompt(added, _location, Report("take", action_object, 0, 0, FALSE))
      /\ UNCHANGED <<_items, _exits, call, destroy_on_execute, _location>>
      /\ UNCHANGED loaded

\* Go without the call of set_location.
Go_stays(line, cap) ==
  LET sel == Selection(line, Len(actions))
      action_object == actions[sel.value].exit
  IN  /\ pc = "presenting"
      /\ depth < cap
      /\ ~sel.raised
      /\ actions[sel.value].type = "go"
      /\ EnterPrompt(heap, _location, Report("go", action_object.to, 0, 0, FALSE))
      /\ UNCHANGED <<heap, _items, _exits, call, _virtual_location, destroy_on_execute,
                     _location>>
      /\ UNCHANGED loaded

Go(line, cap) ==
  LET sel == Selection(line, Len(actions))
      action_object == actions[sel.value].exit
  IN  /\ pc = "presenting"
      /\ depth < cap
      /\ ~sel.raised
      /\ actions[sel.value].type = "go"
      /\ _location' = action_object.to
      /\ EnterPrompt(heap, action_object.to, Report("go", action_object.to, 0, 0, FALSE))
      /\ UNCHANGED <<heap, _items, _exits, call, _virtual_location, destroy_on_execute>>
      /\ UNCHANGED loaded

\* Inventory menu: a line that int() refuses or that is out of range.
InventoryRejected(line) ==
  /\ pc = "inventory"
  /\ Selection(line, Len(get_items(heap, "Player")) + 1).raised
  /\ out' = Report("invalid", None, 0, Len(get_items(heap, "Player")), FALSE)
  /\ UNCHANGED <<heap, _items, _exits, call, _virtual_location, destroy_on_execute,
                 _location, pc, depth, actions>>
  /\ UNCHANGED loaded

InventoryClose(line, cap) ==
  LET choice == Selection(line, Len(get_items(heap, "Player")) + 1)
  IN  /\ pc = "inventory"
      /\ depth < cap
      /\ ~choice.raised
      /\ choice.value = 1
      /\ EnterPrompt(heap, _location, Report("close", None, 0, 0, FALSE))
      /\ UNCHANGED <<heap, _items, _exits, call, _virtual_location, destroy_on_execute,
                     _location>>
      /\ UNCHANGED loaded

\* The inventory menu counting the held items from the end.
InventoryUse_reversed(line, cap) ==
  LET held == get_items(heap, "Player")
      choice == Selection(line, Len(held) + 1)
      item == held[Len(held) - (choice.value - 2)]
      r == execute(heap, item)
  IN  /\ pc = "inventory"
      /\ depth < cap
      /\ ~choice.raised
      /\ choice.value # 1
      /\ heap' = r.heap
      /\ call' = Call("execute", _virtual_location[item], item, r.raised, r.effect)
      /\ IF r.raised
         THEN /\ pc' = "crashed"
              /\ out' = Report("AttributeError", item, 0, 0, FALSE)
              /\ UNCHANGED <<depth, actions>>
         ELSE EnterPrompt(r.heap, _location,
                          IF r.effect = 0 THEN Report("use", item, 0, 0, FALSE)
                          ELSE Report("effect", item, 0, 0, r.present))
      /\ UNCHANGED <<_items, _exits, _virtual_location, destroy_on_execute, _location>>
      /\ UNCHANGED loaded

\* An item is chosen: print(choice), then the execute() of its use, whose
\* effect prints its own line.
InventoryUse(line, cap) ==
  LET choice == Selection(line, Len(get_items(heap, "Player")) + 1)
      item == get_items(heap, "Player")[choice.value - 1]
      r == execute(heap, item)
  IN  /\ pc = "inventory"
      /\ depth < cap
      /\ ~choice.raised
      /\ choice.value # 1
      /\ heap' = r.heap
      /\ call' = Call("execute", _virtual_location[item], item, r.raised, r.effect)
      /\ IF r.raised
         THEN /\ pc' = "crashed"
              /\ out' = Report("AttributeError", item, 0, 0, FALSE)
              /\ UNCHANGED <<depth, actions>>
         ELSE EnterPrompt(r.heap, _location,
                          IF r.effect = 0 THEN Report("use", item, 0, 0, FALSE)
                          ELSE Report("effect", item, 0, 0, r.present))
      /\ UNCHANGED <<_items, _exits, _virtual_location, destroy_on_execute, _location>>
      /\ UNCHANGED loaded

Next ==
  \/ Start(MaxTurns)
  \/ \E line \in Inputs :
       \/ Rejected(line)
       \/ Quit(line)
       \/ OpenInventory(line)
       \/ Take(line, MaxTurns)
       \/ Go(line, MaxTurns)
       \/ InventoryRejected(line)
       \/ InventoryClose(line, MaxTurns)
       \/ InventoryUse(line, MaxTurns)

Spec == Init /\ [][Next]_vars

----------------------------------------------------------------------------
(* A long walk: the player only walks, mistypes and quits, with one-       *)
(* character lines, for as many turns as the interpreter allows.           *)

WalkInputs == Lines(1)

NextWalk ==
  \/ Start(RecursionLimit)
  \/ \E line \in WalkInputs :
       \/ Rejected(line)
       \/ Quit(line)
       \/ Go(line, RecursionLimit)

SpecWalk == Init /\ [][NextWalk]_vars

----------------------------------------------------------------------------
(* The classes on their own: two containers and two items are constructed  *)
(* and their methods are called directly, in any order.  The use of the    *)
(* first item destroys on execute, the use of the second is constructed    *)
(* with the default (destroy_on_execute = False).                          *)

UnitContainers == {"Lounge", "Player"}

UnitItems == {"Crown", "Mango"}

InitObjects ==
  /\ heap = [l \in ListObjects |-> <<>>]
  /\ _items = [c \in Containers |-> c]
  /\ _exits = [l \in Locations |-> <<>>]
  /\ _virtual_location = [i \in Items |-> None]
  /\ destroy_on_execute = [i \in Items |-> i = "Crown"]
  /\ _location = None
  /\ pc = "objects"
  /\ depth = 0
  /\ actions = <<>>
  /\ out = Silent
  /\ call = NoCall
  /\ futures = <<>>
  /\ rooms_gpt_responses = <<>>
  /\ _description = [l \in Locations |-> "a description"]

AddItem(c, item) ==
  /\ pc = "objects"
  /\ Len(get_items(heap, c)) < MaxItems
  /\ heap' = add_item(heap, c, item)
  /\ call' = Call("add_item", c, item, FALSE, 0)
  /\ UNCHANGED <<_items, _exits, _virtual_location, destroy_on_execute, _location,
                 pc, depth, actions, out>>
  /\ UNCHANGED loaded

RemoveItem(c, item) ==
  /\ pc = "objects"
  /\ heap' = remove_item(heap, c, item)
  /\ call' = Call("remove_item", c, item, FALSE, 0)
  /\ UNCHANGED <<_items, _exits, _virtual_location, destroy_on_execute, _location,
                 pc, depth, actions, out>>
  /\ UNCHANGED loaded

SetVirtualLocation(item, c) ==
  /\ pc = "objects"
  /\ _virtual_location' = set_virtual_location(_virtual_location, item, c)
  /\ call' = Call("set_virtual_location", c, item, FALSE, 0)
  /\ UNCHANGED <<heap, _items, _exits, destroy_on_execute, _location,
                 pc, depth, actions, out>>
  /\ UNCHANGED loaded

Destroy(item) ==
  LET r == destroy(heap, item)
  IN  /\ pc = "objects"
      /\ heap' = r.heap
      /\ call' = Call("destroy", _virtual_location[item], item, r.raised, 0)
      /\ UNCHANGED <<_items, _exits, _virtual_location, destroy_on_execute, _location,
                     pc, depth, actions, out>>
      /\ UNCHANGED loaded

Execute(item) ==
  LET r == execute(heap, item)
  IN  /\ pc = "objects"
      /\ heap' = r.heap
      /\ out' = IF r.effect = 0 THEN out ELSE Report("effect", item, 0, 0, r.present)
      /\ call' = Call("execute", _virtual_location[item], item, r.raised, r.effect)
      /\ UNCHANGED <<_items, _exits, _virtual_location, destroy_on_execute, _location,
                     pc, depth, actions>>
      /\ UNCHANGED loaded

NextObjects ==
  \E item \in UnitItems :
    \/ Destroy(item)
    \/ Execute(item)
    \/ \E c \in UnitContainers :
         \/ AddItem(c, item)
         \/ RemoveItem(c, item)
         \/ SetVirtualLocation(item, c)

SpecObjects == InitObjects /\ [][NextObjects]_vars

----------------------------------------------------------------------------
(* The program from its first line: the four calls are submitted, run and  *)
(* finish in any order, each with an answer or with the exception of a     *)
(* failed request; the with block ends when all have finished; list()      *)
(* collects the results; the world is built and the first menu shown.      *)
(* Before the world is built its objects do not exist: their fields are    *)
(* empty or None.  Once it is built nothing refers to the futures any      *)
(* more, and the model forgets them.                                       *)

InitLoad ==
  /\ heap = [l \in ListObjects |-> <<>>]
  /\ _items = [c \in Containers |-> c]
  /\ _exits = [l \in Locations |-> <<>>]
  /\ _virtual_location = [i \in Items |-> None]
  /\ destroy_on_execute = [i \in Items |-> FALSE]
  /\ _location = None
  /\ pc = "loading"
  /\ depth = 0
  /\ actions = <<>>
  /\ out = Silent
  /\ call = NoCall
  /\ futures = <<>>
  /\ rooms_gpt_responses = <<>>
  /\ _description = [l \in Locations |-> None]

world == <<heap, _items, _exits, _virtual_location, destroy_on_execute, _location,
           depth, actions, call>>

\* executor.map: one future per prompt, submitted in the order of the list.
Map ==
  /\ pc = "loading"
  /\ futures' = [i \in 1..Len(Prompts) |-> Future("PENDING", None, FALSE, 0)]
  /\ pc' = "mapped"
  /\ UNCHANGED <<world, out, rooms_gpt_responses, _description>>

Finished(fs) == {i \in 1..Len(fs) : fs[i].state = "FINISHED"}

\* A worker thread takes the i-th call and sends the request.
Run(i) ==
  /\ pc = "mapped"
  /\ futures[i].state = "PENDING"
  /\ futures' = [futures EXCEPT ![i].state = "RUNNING"]
  /\ UNCHANGED <<world, pc, out, rooms_gpt_responses, _description>>

\* The service answers the i-th call.
Respond(i) ==
  /\ pc = "mapped"
  /\ futures[i].state = "RUNNING"
  /\ futures' = [futures EXCEPT ![i] = Future("FINISHED", ask_gpt(Prompts[i]), FALSE,
                                              Cardinality(Finished(futures)) + 1)]
  /\ UNCHANGED <<world, pc, out, rooms_gpt_responses, _description>>

\* The request of the i-th call fails: post raises.
Fail(i) ==
  /\ pc = "mapped"
  /\ futures[i].state = "RUNNING"
  /\ futures' = [futures EXCEPT ![i] = Future("FINISHED", None, TRUE,
                                              Cardinality(Finished(futures)) + 1)]
  /\ UNCHANGED <<world, pc, out, rooms_gpt_responses, _description>>

\* The end of the with block: shutdown(wait=True) returns when every
\* worker thread is done.
Join ==
  /\ pc = "mapped"
  /\ Finished(futures) = 1..Len(futures)
  /\ pc' = "joined"
  /\ UNCHANGED <<world, out, futures, rooms_gpt_responses, _description>>

\* list(rooms_gpt_responses), then print('Game loaded!'); the exception of
\* a failed call is raised again by result() and ends the program.
Collect ==
  /\ pc = "joined"
  /\ IF \E i \in 1..Len(futures) : futures[i].exception
     THEN /\ pc' = "crashed"
          /\ out' = Report("ConnectionError", None, 0, 0, FALSE)
          /\ UNCHANGED rooms_gpt_responses
     ELSE /\ pc' = "listed"
          /\ out' = Report("loaded", None, 0, 0, FALSE)
          /\ rooms_gpt_responses' = collect(futures)
  /\ UNCHANGED <<world, futures, _description>>

\* The rooms, the items, the exits and the player, up to set_location.
BuildWorld ==
  /\ pc = "listed"
  /\ heap' = WorldItems
  /\ _exits' = InitExits
  /\ destroy_on_execute' = [i \in Items |-> TRUE]
  /\ _description' = WorldDescriptions(rooms_gpt_responses)
  /\ _location' = "Lounge"
  /\ futures' = <<>>
  /\ out' = Silent
  /\ pc' = "start"
  /\ UNCHANGED <<_items, _virtual_location, depth, actions, call, rooms_gpt_responses>>

NextLoad ==
  \/ Map
  \/ \E i \in 1..Len(Prompts) :
       \/ Run(i)
       \/ Respond(i)
       \/ Fail(i)
  \/ Join
  \/ Collect
  \/ BuildWorld
  \/ Start(MaxTurns)

SpecLoad == InitLoad /\ [][NextLoad]_vars

----------------------------------------------------------------------------
(* Rooms constructed without the items argument: Room('Lounge', d, []) and *)
(* Room('Kitchen', d, []) both receive the list object that the def        *)
(* statement of Room.__init__ evaluated once for its default; the Dining   *)
(* Room is constructed with a list of its own.                             *)

DefaultRooms == {"Lounge", "Kitchen"}

InitRooms ==
  /\ heap = [l \in ListObjects |-> <<>>]
  /\ _items = [c \in Containers |-> IF c \in DefaultRooms THEN RoomDefaultItems ELSE c]
  /\ _exits = [l \in Locations |-> <<>>]
  /\ _virtual_location = [i \in Items |-> None]
  /\ destroy_on_execute = [i \in Items |-> i = "Crown"]
  /\ _location = None
  /\ pc = "objects"
  /\ depth = 0
  /\ actions = <<>>
  /\ out = Silent
  /\ call = NoCall
  /\ futures = <<>>
  /\ rooms_gpt_responses = <<>>
  /\ _description = [l \in Locations |-> "a description"]

NextRooms ==
  \E item \in UnitItems : \E c \in Rooms :
    \/ AddItem(c, item)
    \/ RemoveItem(c, item)

SpecRooms == InitRooms /\ [][NextRooms]_vars

----------------------------------------------------------------------------
(* Properties *)

InList(x, l) == \E k \in 1..Len(l) : l[k] = x

\* The places (container, index) at which an item lies.
Places(item) ==
  {<<c, k>> \in Containers \X (1..Cardinality(Items) + MaxItems) :
     k <= Len(get_items(heap, c)) /\ get_items(heap, c)[k] = item}

\* C1: a Take turn for an item I lying in the player's location L leaves I
\* out of L's items, I appended last to the player's items (the rest of the
\* inventory as it was), and I's use owned by the player.
C1_TakeMovesItem ==
  [][(pc = "presenting" /\ out'.kind = "take" /\ InList(out'.arg, get_items(heap, _location)))
       => LET I == out'.arg
              held == get_items(heap', "Player")
          IN  /\ ~InList(I, get_items(heap', _location))
              /\ held = Append(get_items(heap, "Player"), I)
              /\ _virtual_location'[I] = "Player"]_vars

\* A second item has just been taken: it lies behind the first one.
C1_Witness ==
  /\ out.kind = "take"
  /\ Len(get_items(heap, "Player")) = 2
  /\ get_items(heap, "Player")[2] = out.arg
  /\ ~InList(out.arg, get_items(heap, _location))

\* C2: in the game every item lies in at most one container's item
\* sequence, and at most once in it.
C2_SingleOwnership == \A item \in Items : Cardinality(Places(item)) <= 1

\* Two items were taken and one of them was used from the inventory.
C2_Witness ==
  /\ out.kind = "effect"
  /\ Len(get_items(heap, "Player")) = 1
  /\ \E item \in Items : Places(item) = {<<"Player", 1>>}

\* C3: from the state right after world construction on, every item held
\* in a container's item sequence has that container as its use's owner.
C3_OwnerConsistency ==
  \A c \in Containers : \A item \in Items :
    InList(item, get_items(heap, c)) => _virtual_location[item] = c

C5_RemoveItem ==
  [][call'.op = "remove_item"
       => LET old == get_items(heap, call'.container)
              new == get_items(heap', call'.container)
              I == call'.item
          IN  /\ ~call'.raised
              /\ IF ~InList(I, old) THEN new = old
                 ELSE \E k \in 1..Len(old) :
                        /\ old[k] = I
                        /\ \A j \in 1..(k - 1) : old[j] # I
                        /\ new = SubSeq(old, 1, k - 1) \o SubSeq(old, k + 1, Len(old))]_vars

\* An item that lay twice in a container was removed once: the later entry
\* stays, behind the other item.
C5_Witness ==
  /\ call.op = "remove_item"
  /\ call.item = "Crown"
  /\ get_items(heap, call.container) = <<"Mango", "Crown">>
  /\ get_items(heap, "Player") = <<"Crown", "Mango", "Crown">>

\* C6: the action list of a turn is Quit, Inventory, one Take per item of
\* the player's location in item order, one Go per exit in exit order, and
\* nothing else: no Take of an item held by the player or lying elsewhere.
C6_ActionList ==
  pc \in {"presenting", "inventory"} =>
    LET its == get_items(heap, _location)
        exs == _exits[_location]
    IN  /\ Len(actions) = 2 + Len(its) + Len(exs)
        /\ actions[1] = PlayerAction("quit", None, NoExit)
        /\ actions[2] = PlayerAction("inventory", None, NoExit)
        /\ \A k \in 1..Len(its) : actions[2 + k] = PlayerAction("take", its[k], NoExit)
        /\ \A k \in 1..Len(exs) : actions[2 + Len(its) + k] = PlayerAction("go", None, exs[k])
        /\ \A k \in 1..Len(actions) : \A c \in Containers \ {_location} :
             actions[k].type = "take" => ~InList(actions[k].item, get_items(heap, c))

\* In the kitchen with the mango taken: the apple is offered, the mango not.
C6_Witness ==
  /\ pc = "presenting"
  /\ _location = "Kitchen"
  /\ get_items(heap, "Player") = <<"Mango">>
  /\ Len(actions) = 5
  /\ actions[3] = PlayerAction("take", "Apple", NoExit)

\* The one-character line of a number 0..7.
DigitLine(v) == <<CHOOSE c \in Digits : DigitValue[c] = v>>

\* The main menu dispatches `line` as the action a, and as nothing else.
Dispatches(line, a) ==
  CASE a.type = "quit" ->
         /\ ENABLED (Quit(line) /\ pc' = "quit")
         /\ ~ENABLED (OpenInventory(line) \/ Take(line, MaxTurns) \/ Go(line, MaxTurns))
    [] a.type = "inventory" ->
         /\ ENABLED (OpenInventory(line) /\ pc' = "inventory")
         /\ ~ENABLED (Quit(line) \/ Take(line, MaxTurns) \/ Go(line, MaxTurns))
    [] a.type = "take" ->
         /\ depth < MaxTurns =>
              ENABLED (Take(line, MaxTurns) /\ out' = Report("take", a.item, 0, 0, FALSE))
         /\ ~ENABLED (Quit(line) \/ OpenInventory(line) \/ Go(line, MaxTurns))
    [] a.type = "go" ->
         /\ depth < MaxTurns =>
              ENABLED (Go(line, MaxTurns) /\ _location' = a.exit.to
                         /\ out' = Report("go", a.exit.to, 0, 0, FALSE))
         /\ ~ENABLED (Quit(line) \/ OpenInventory(line) \/ Take(line, MaxTurns))

\* C7: at the main menu with n actions, a line that is no integer or an
\* integer outside 1..n (0, n + 1 and negatives among them) is answered by
\* the error report and the same menu, with the location, the items and the
\* owners as they were; a line that is an integer k in 1..n dispatches the
\* k-th action of the list.
C7_MainMenuValidation ==
  pc = "presenting" =>
    LET n == Len(actions)
    IN  /\ \A line \in Inputs :
             LET p == int(line)
             IN  IF p.raised \/ p.value < 1 \/ p.value > n
                 THEN /\ ENABLED (/\ Rejected(line)
                                  /\ out'.kind = "invalid"
                                  /\ UNCHANGED <<heap, _items, _exits, _virtual_location,
                                                 _location, pc, actions>>)
                      /\ ~ENABLED (Quit(line) \/ OpenInventory(line)
                                     \/ Take(line, MaxTurns) \/ Go(line, MaxTurns))
                 ELSE /\ ~ENABLED Rejected(line)
                      /\ Dispatches(line, actions[p.value])
        /\ \A line \in {<<>>, <<"a">>, <<"0">>, <<"-", "1">>, <<"1", "a">>, DigitLine(n + 1)} :
             ENABLED Rejected(line)
        /\ \A k \in 1..n : ~ENABLED Rejected(DigitLine(k))

\* A line was refused at a menu of five actions, and nothing had moved.
C7_Witness ==
  /\ pc = "presenting"
  /\ out = Report("invalid", None, 1, 5, FALSE)
  /\ Len(actions) = 5
  /\ get_items(heap, "Lounge") = <<"Crown">>

\* The numbers a menu accepts, among those one character can name.
Accepted(last) == {v \in 0..7 : ~Selection(DigitLine(v), last).raised}

\* C8: at either menu the range named by the error report is the set of
\* accepted numbers: 1..count(actions) at the main menu, 1..count(held
\* items) + 1 at the inventory menu.
C8_ReportedRange ==
  (out.kind = "invalid" /\ pc \in {"presenting", "inventory"}) =>
    LET last == IF pc = "presenting" THEN Len(actions)
                ELSE Len(get_items(heap, "Player")) + 1
    IN  /\ out.lo = 1
        /\ out.hi = last
        /\ Accepted(last) = {v \in 0..7 : out.lo <= v /\ v <= out.hi}

\* C9: the run ends only by Quit; after any number of other turns the
\* player is at a menu again.
C9_QuitIsTheOnlyExit ==
  pc \notin {"start", "presenting", "inventory"} => (pc = "quit" /\ out.kind = "quit")

\* The owner of item's use is unset, or does not hold the item.
Stale(item) ==
  \/ _virtual_location[item] = None
  \/ ~InList(item, get_items(heap, _virtual_location[item]))

\* C10: destroy(), or execute() of a destroy-on-execute use, with the owner
\* unset or not holding the item changes no list and raises nothing.
C10_DestroyIsInert ==
  [][\A item \in UnitItems :
       ((Destroy(item) \/ (Execute(item) /\ destroy_on_execute[item])) /\ Stale(item))
         => (heap' = heap /\ ~call'.raised)]_vars

\* The containers whose item sequence holds item, in the heap h.
Holders(h, item) == {c \in Containers : InList(item, get_items(h, c))}

\* C11: at the inventory menu with the items i1..in held, the selection 1
\* closes the menu and changes no list, owner or location; a selection k in
\* 2..n+1 calls execute() of the use of the (k-1)-th held item and touches
\* no other item; either way the player's location stays what it was.
C11_InventoryDispatch ==
  (pc = "inventory" /\ depth < MaxTurns) =>
    LET held == get_items(heap, "Player")
        n == Len(held)
    IN  \A line \in Inputs :
          LET p == int(line)
          IN  (~p.raised /\ 1 <= p.value /\ p.value <= n + 1) =>
                IF p.value = 1
                THEN /\ ENABLED (/\ InventoryClose(line, MaxTurns)
                                 /\ out'.kind = "close"
                                 /\ UNCHANGED <<heap, _items, _exits, _virtual_location,
                                                destroy_on_execute, _location, call>>)
                     /\ ~ENABLED InventoryUse(line, MaxTurns)
                ELSE /\ ENABLED (/\ InventoryUse(line, MaxTurns)
                                 /\ call'.op = "execute"
                                 /\ call'.item = held[p.value - 1]
                                 /\ out'.arg = held[p.value - 1]
                                 /\ _location' = _location
                                 /\ \A other \in Items \ {held[p.value - 1]} :
                                      Holders(heap', other) = Holders(heap, other))
                     /\ ~ENABLED (/\ InventoryUse(line, MaxTurns)
                                  /\ call'.item # held[p.value - 1])
                     /\ ~ENABLED InventoryClose(line, MaxTurns)

\* With the mango and the apple held, the second entry was chosen: the
\* apple was used and the mango is still held.
C11_Witness ==
  /\ pc = "presenting"
  /\ call = Call("execute", "Player", "Apple", FALSE, 1)
  /\ out.arg = "Apple"
  /\ get_items(heap, "Player") = <<"Mango">>
  /\ _location = "Kitchen"

\* The locations one move away from a location of S, and S itself.
Neighbours(S) ==
  S \cup UNION {{_exits[l][k].to : k \in 1..Len(_exits[l])} : l \in S}

\* The locations one can walk to from the locations S in at most n moves.
RECURSIVE Walk(_, _)
Walk(S, n) == IF n = 0 THEN S ELSE Walk(Neighbours(S), n - 1)

\* C12: a Go turn puts the player at the far end of the chosen exit and
\* changes no item sequence, exit sequence or owner; the player's location
\* is never unset and can always be walked to from the Lounge.
C12_GoFrame ==
  /\ [][(pc = "presenting" /\ out'.kind = "go")
          => \E k \in 1..Len(actions) :
               /\ actions[k].type = "go"
               /\ _location' = actions[k].exit.to
               /\ out'.arg = actions[k].exit.to
               /\ UNCHANGED <<heap, _items, _exits, _virtual_location,
                              destroy_on_execute>>]_vars
  /\ [](/\ _location # None
        /\ _location \in Walk({"Lounge"}, Cardinality(Locations)))

\* Two moves away from the Lounge, with the crown still lying there.
C12_Witness ==
  /\ out = Report("go", "Dining Room", 0, 0, FALSE)
  /\ _location = "Dining Room"
  /\ get_items(heap, "Lounge") = <<"Crown">>
  /\ get_items(heap, "Player") = <<>>

\* C13: from the Lounge holding the crown, with nothing held, line 3 takes
\* the crown (held = [Crown], Lounge = []); then line 3 goes to the Hall;
\* then line 2 opens the inventory and line 2 wears the crown: nothing is
\* held, the crown lies in no container, its effect ran once, and it is
\* not offered again.
C13_Scenario ==
  LET held == get_items(heap, "Player")
      lounge == get_items(heap, "Lounge")
  IN  /\ (/\ pc = "presenting" /\ depth < MaxTurns /\ _location = "Lounge"
          /\ lounge = <<"Crown">> /\ held = <<>>)
         => ENABLED (/\ Take(<<"3">>, MaxTurns)
                     /\ get_items(heap', "Player") = <<"Crown">>
                     /\ get_items(heap', "Lounge") = <<>>
                     /\ _location' = "Lounge"
                     /\ pc' = "presenting")
      /\ (/\ pc = "presenting" /\ depth < MaxTurns /\ _location = "Lounge"
          /\ lounge = <<>> /\ held = <<"Crown">>)
         => ENABLED (/\ Go(<<"3">>, MaxTurns)
                     /\ _location' = "Hall"
                     /\ get_items(heap', "Player") = <<"Crown">>
                     /\ pc' = "presenting")
      /\ (pc = "presenting" /\ _location = "Hall" /\ held = <<"Crown">>)
         => ENABLED (/\ OpenInventory(<<"2">>)
                     /\ pc' = "inventory"
                     /\ UNCHANGED <<heap, _location>>)
      /\ (/\ pc = "inventory" /\ depth < MaxTurns /\ _location = "Hall"
          /\ held = <<"Crown">>)
         => ENABLED (/\ InventoryUse(<<"2">>, MaxTurns)
                     /\ get_items(heap', "Player") = <<>>
                     /\ Holders(heap', "Crown") = {}
                     /\ call' = Call("execute", "Player", "Crown", FALSE, 1)
                     /\ out' = Report("effect", "Crown", 0, 0, FALSE)
                     /\ _location' = "Hall")
      /\ (pc = "inventory" /\ Holders(heap, "Crown") = {})
         => \A line \in Inputs :
              ~ENABLED (InventoryUse(line, MaxTurns) /\ call'.item = "Crown")

\* The scenario has been played: four turns, the crown worn in the Hall.
C13_Witness ==
  /\ depth = 4
  /\ _location = "Hall"
  /\ out = Report("effect", "Crown", 0, 0, FALSE)
  /\ get_items(heap, "Player") = <<>>
  /\ get_items(heap, "Lounge") = <<>>
  /\ pc = "presenting"

\* C15: in the game every held item's use has the player as its owner, so
\* no execute() chosen at the inventory menu raises, and a use that
\* destroys on execute takes its item out of the player's list and leaves
\* every other container's list as it was.
C15_HeldItemsAreOwned ==
  /\ [](\A item \in Items :
          InList(item, get_items(heap, "Player")) => _virtual_location[item] = "Player")
  /\ [][(pc = "inventory" /\ out'.kind \in {"effect", "use", "AttributeError"})
          => LET item == out'.arg
                 held == get_items(heap, "Player")
             IN  /\ InList(item, held)
                 /\ call' = Call("execute", "Player", item, FALSE, 1)
                 /\ pc' # "crashed"
                 /\ destroy_on_execute[item]
                      => /\ get_items(heap', "Player")
                              = SelectSeq(held, LAMBDA x : x # item)
                         /\ \A c \in Containers \ {"Player"} :
                              get_items(heap', c) = get_items(heap, c)]_vars

\* The mango was taken and eaten in the kitchen; the apple still lies there.
C15_Witness ==
  /\ out = Report("effect", "Mango", 0, 0, FALSE)
  /\ call.container = "Player"
  /\ get_items(heap, "Kitchen") = <<"Apple">>
  /\ get_items(heap, "Player") = <<>>
  /\ _virtual_location["Mango"] = "Player"

\* The items in play: those lying in some container's item sequence.
InPlay(h) == {item \in Items : Holders(h, item) # {}}

\* C16: no turn adds an item to the items in play; Take and Go keep them
\* the same; an item leaves them only by the execute() of its own
\* destroy-on-execute use from the inventory; an item that left is in no
\* container and in no action list afterwards; an item lying in a location
\* never lies in another location later.
C16_ItemConservation ==
  [][/\ InPlay(heap') \subseteq InPlay(heap)
     /\ (pc = "presenting" /\ out'.kind \in {"take", "go"})
          => InPlay(heap') = InPlay(heap)
     /\ InPlay(heap') # InPlay(heap)
          => /\ pc = "inventory"
             /\ call'.op = "execute"
             /\ out' = Report("effect", call'.item, 0, 0, FALSE)
             /\ destroy_on_execute[call'.item]
             /\ InPlay(heap') = InPlay(heap) \ {call'.item}
     /\ \A item \in Items \ InPlay(heap) :
          /\ Holders(heap', item) = {}
          /\ \A k \in 1..Len(actions') : actions'[k].item # item
     /\ \A item \in Items : \A l \in Locations :
          InList(item, get_items(heap', l)) => InList(item, get_items(heap, l))]_vars

\* The crown was worn, and the player has walked on to the kitchen since.
C16_Witness ==
  /\ InPlay(heap) = Items \ {"Crown"}
  /\ out.kind = "go"
  /\ _location = "Kitchen"
  /\ \A k \in 1..Len(actions) : actions[k].item # "Crown"

\* C17: execute() of a use that does not destroy on execute runs the
\* effect once, raises nothing, and leaves every item sequence, every owner
\* and the player's location as they were; the item stays where it was and
\* its use can be executed again with the same result.
C17_NonDestructiveUse ==
  /\ [][\A item \in UnitItems :
          (Execute(item) /\ ~destroy_on_execute[item])
            => /\ call'.effect = 1
               /\ ~call'.raised
               /\ out'.kind = "effect"
               /\ out'.arg = item
               /\ UNCHANGED <<heap, _items, _virtual_location, _location>>]_vars
  /\ []((call.op = "execute" /\ ~destroy_on_execute[call.item])
          => ENABLED (/\ Execute(call.item)
                      /\ call'.effect = 1
                      /\ ~call'.raised
                      /\ heap' = heap))

\* The mango, held by the player who owns its use, was used and is still
\* held.
C17_Witness ==
  /\ call = Call("execute", "Player", "Mango", FALSE, 1)
  /\ out = Report("effect", "Mango", 0, 0, TRUE)
  /\ get_items(heap, "Player") = <<"Mango">>
  /\ ~destroy_on_execute["Mango"]

\* C18: add_item or remove_item on one container changes neither the item
\* sequence nor the action list of any other container, two Rooms
\* constructed without an items argument among them.
C18_IndependentContainers ==
  [][\A c \in Rooms : \A item \in UnitItems :
       (AddItem(c, item) \/ RemoveItem(c, item))
         => \A d \in Locations \ {c} :
              /\ get_items(heap', d) = get_items(heap, d)
              /\ print_and_get_actions(heap', d) = print_and_get_actions(heap, d)]_vars

\* C14: in whatever order the four calls run and finish, the i-th
\* collected result is the answer to the i-th prompt, so the Lounge, the
\* Kitchen, the Hall and the Dining Room are described by the answers to
\* their own prompts; the results are collected, the world is built and
\* the first menu is shown only when all four calls have finished.
C14_FanOutJoin ==
  /\ [](pc = "listed"
          => /\ Len(rooms_gpt_responses) = Len(Prompts)
             /\ \A i \in 1..Len(Prompts) : rooms_gpt_responses[i] = ask_gpt(Prompts[i]))
  /\ [](pc \in {"start", "presenting"}
          => /\ _description["Lounge"] = ask_gpt("lounge")
             /\ _description["Kitchen"] = ask_gpt("kitchen")
             /\ _description["Hall"] = ask_gpt("hall")
             /\ _description["Dining Room"] = ask_gpt("dining room"))
  /\ [](pc \in {"loading", "mapped", "joined"}
          => /\ rooms_gpt_responses = <<>>
             /\ _location = None
             /\ depth = 0
             /\ \A l \in Locations : _description[l] = None /\ get_items(heap, l) = <<>>)
  /\ [][pc' \in {"joined", "listed", "start"} /\ pc' # pc
          => /\ Len(futures) = Len(Prompts)
             /\ \A i \in 1..Len(futures) : futures[i].state = "FINISHED"]_vars

\* The calls finished in the reverse of the order of their prompts, and
\* the list holds the answers in the order of the prompts.
C14_Witness ==
  /\ pc = "listed"
  /\ \A i \in 1..Len(Prompts) : futures[i].rank = Len(Prompts) + 1 - i
  /\ rooms_gpt_responses = <<ask_gpt("lounge"), ask_gpt("kitchen"),
                             ask_gpt("hall"), ask_gpt("dining room")>>

====
